---- MODULE Spec2Model ----
(***************************************************************************)
(* Model of the typestate automata crates:                                 *)
(*   - typestate-automata/src/lib.rs: the edge-list automaton              *)
(*     (DeterministicFiniteAutomata) with reachable / is_productive;       *)
(*   - typestate-proc-macro/src/intermediate_graph.rs: the intermediate    *)
(*     automaton and its three exporters (dot, plantuml, mermaid).         *)
(***************************************************************************)
EXTENDS Naturals, Sequences, FiniteSets

VARIABLES
    states,          \* DeterministicFiniteAutomata.states
    initial_states,  \* DeterministicFiniteAutomata.initial_states
    final_states,    \* DeterministicFiniteAutomata.final_states
    transitions,     \* DeterministicFiniteAutomata.transitions (flat set)
    automata,        \* DeterministicFiniteAutomata.automata (DiGraphMap)
    ret,             \* what the last call on the automaton returned
    ia_states,       \* IntermediateAutomaton.states
    choices,         \* IntermediateAutomaton.choices
    delta,           \* IntermediateAutomaton.delta
    ia_ret,          \* what the last call on the intermediate automaton returned
    out,             \* the exporter that consumed the automaton, and its result
    ea,              \* the Dfa / Nfa handed to a conversion (dot.rs, plantuml.rs)
    conv,            \* the Dot / PlantUml value the conversion built
    shown,           \* what Display wrote for conv
    bfs_pc,          \* reachable, step by step: "idle", "loop" or "done"
    bfs_start,       \* reachable: its argument
    bfs_stack,       \* reachable: the VecDeque stack
    bfs_discovered,  \* reachable: the HashSet discovered
    bfs_enqueued     \* how often each state was pushed on the stack (history)

dfa_vars == <<states, initial_states, final_states, transitions, automata, ret>>

ia_vars == <<ia_states, choices, delta, ia_ret, out>>

conv_vars == <<ea, conv, shown>>

bfs_vars == <<bfs_pc, bfs_start, bfs_stack, bfs_discovered, bfs_enqueued>>

vars == <<dfa_vars, ia_vars, conv_vars, bfs_vars>>

(***************************************************************************)
(* Option<T>: None is the empty tuple, Some(x) the one-element tuple.      *)
(***************************************************************************)
None == <<>>

Some(x) == <<x>>

(***************************************************************************)
(* Inputs.                                                                 *)
(***************************************************************************)
StateUniverse == {"A", "B", "C"}

\* The states offered to add_initial_state and to add_final_state.
InitialUniverse == {"A"}

FinalUniverse == {"C"}

\* Largest number of distinct transitions stored in the flat set.
MaxTransitions == 2

\* Transition::new(source, destination, symbol)
Transition(source, destination, symbol) ==
    [source |-> source, destination |-> destination, symbol |-> symbol]

\* The transitions offered to add_transition: every pair of states on "x", and
\* A -> B and B -> C on "y" as well (two symbols for one pair).
TransitionUniverse ==
    {Transition(s, d, "x") : s \in StateUniverse, d \in StateUniverse}
        \cup {Transition("A", "B", "y"), Transition("B", "C", "y")}

(***************************************************************************)
(* petgraph's DiGraphMap<N, E>, as lib.rs uses it.                          *)
(*   nodes : node -> adjacency list, a sequence of <<neighbour, direction>> *)
(*   edges : the entries <<<<a, b>>, weight>> of the edge map               *)
(***************************************************************************)
DiGraphMap_new == [nodes |-> <<>>, edges |-> {}]

HasNode(g, n) == n \in DOMAIN g.nodes

\* A plausible slip: insert instead of or_insert, the adjacency list of a
\* node already there is emptied.
EnsureNode_reset(nodes, n) ==
    [m \in DOMAIN nodes \cup {n} |-> IF m = n THEN <<>> ELSE nodes[m]]

\* nodes.entry(n).or_insert(Vec::new())
EnsureNode(nodes, n) ==
    IF n \in DOMAIN nodes THEN nodes
    ELSE [m \in DOMAIN nodes \cup {n} |-> IF m = n THEN <<>> ELSE nodes[m]]

\* nodes.entry(n).or_insert(..).push(item)
PushNeighbor(nodes, n, item) ==
    LET e == EnsureNode(nodes, n)
    IN  [e EXCEPT ![n] = Append(e[n], item)]

\* DiGraphMap::add_node
add_node(g, n) == [g EXCEPT !.nodes = EnsureNode(g.nodes, n)]

\* The weight stored for the edge a -> b: an Option.
edge_weight(g, a, b) ==
    IF \E e \in g.edges : e[1] = <<a, b>>
    THEN Some((CHOOSE e \in g.edges : e[1] = <<a, b>>)[2])
    ELSE None

\* A plausible slip: the edge map keeps the old entry beside the new one.
EdgesInsert_keep_old(edges, key, weight) == edges \cup {<<key, weight>>}

\* edges.insert(key, weight): the entry of the key is replaced.
EdgesInsert(edges, key, weight) ==
    {e \in edges : e[1] # key} \cup {<<key, weight>>}

\* DiGraphMap::add_edge(a, b, weight); the graph after the call.
add_edge(g, a, b, weight) ==
    IF edge_weight(g, a, b) # None
    THEN [g EXCEPT !.edges = EdgesInsert(g.edges, <<a, b>>, weight)]
    ELSE LET n1 == PushNeighbor(g.nodes, a, <<b, "Outgoing">>)
             n2 == IF a # b THEN PushNeighbor(n1, b, <<a, "Incoming">>) ELSE n1
         IN  [nodes |-> n2, edges |-> EdgesInsert(g.edges, <<a, b>>, weight)]

\* neighbors_directed(a, Incoming)
neighbors_incoming(g, a) ==
    IF HasNode(g, a)
    THEN SelectSeq(g.nodes[a], LAMBDA p : p[2] = "Incoming" \/ p[1] = a)
    ELSE <<>>

\* neighbors_directed(a, Outgoing): the adjacency entries of a, in order.
neighbors_outgoing(g, a) ==
    IF HasNode(g, a)
    THEN SelectSeq(g.nodes[a], LAMBDA p : p[2] = "Outgoing" \/ p[1] = a)
    ELSE <<>>

(***************************************************************************)
(* reachable: the breadth-first loop of lib.rs.                            *)
(***************************************************************************)
RECURSIVE VisitNeighbors_push_always(_, _, _)
\* A plausible slip: a neighbour is pushed whether or not it was discovered
\* before.
VisitNeighbors_push_always(ns, stack, discovered) ==
    IF ns = <<>> THEN [stack |-> stack, discovered |-> discovered]
    ELSE LET n == Head(ns)[1]
         IN  VisitNeighbors_push_always(Tail(ns), Append(stack, n), discovered \cup {n})

RECURSIVE VisitNeighbors(_, _, _)
\* for n in neighbors { if discovered.insert(n) { stack.push_back(n) } }
VisitNeighbors(ns, stack, discovered) ==
    IF ns = <<>> THEN [stack |-> stack, discovered |-> discovered]
    ELSE LET n == Head(ns)[1]
         IN  IF n \in discovered
             THEN VisitNeighbors(Tail(ns), stack, discovered)
             ELSE VisitNeighbors(Tail(ns), Append(stack, n), discovered \cup {n})

RECURSIVE ReachableLoop(_, _, _)
\* while let Some(s) = stack.pop_front() { ... }
ReachableLoop(g, stack, discovered) ==
    IF stack = <<>> THEN discovered
    ELSE LET r == VisitNeighbors(neighbors_outgoing(g, Head(stack)), Tail(stack), discovered)
         IN  ReachableLoop(g, r.stack, r.discovered)

\* A plausible slip: the start state counts as discovered from the start.
reachable_with_self(g, state) == ReachableLoop(g, <<state>>, {state})

\* DeterministicFiniteAutomata::reachable
reachable(g, state) == ReachableLoop(g, <<state>>, {})

\* A plausible slip: the state itself is tested too.
is_productive_or_final(g, finals, state) ==
    (reachable(g, state) \cup {state}) \cap finals # {}

\* DeterministicFiniteAutomata::is_productive
is_productive(g, finals, state) == reachable(g, state) \cap finals # {}

(***************************************************************************)
(* The calls on the edge-list automaton.                                   *)
(***************************************************************************)
NoCall == [op |-> "new"]

DfaInit ==
    /\ states = {}
    /\ initial_states = {}
    /\ final_states = {}
    /\ transitions = {}
    /\ automata = DiGraphMap_new
    /\ ret = NoCall

\* A plausible slip: the state reaches the graph but not the state set.
StatesInsert_skip(set, state) == set

\* A plausible slip: the state set is assigned instead of inserted into.
StatesInsert_replace(set, state) == {state}

\* self.states.insert(state)
StatesInsert(set, state) == set \cup {state}

add_state(state) ==
    /\ states' = StatesInsert(states, state)
    /\ automata' = add_node(automata, state)
    /\ ret' = [op |-> "add_state", val |-> state]
    /\ UNCHANGED <<initial_states, final_states, transitions>>
    /\ UNCHANGED <<ia_vars, conv_vars, bfs_vars>>

\* add_initial_state and add_final_state return what their call of
\* add_state returns.
add_initial_state(state) ==
    /\ initial_states' = initial_states \cup {state}
    /\ states' = StatesInsert(states, state)
    /\ automata' = add_node(automata, state)
    /\ ret' = [op |-> "add_state", val |-> state]
    /\ UNCHANGED <<final_states, transitions>>
    /\ UNCHANGED <<ia_vars, conv_vars, bfs_vars>>

add_final_state(state) ==
    /\ final_states' = final_states \cup {state}
    /\ states' = StatesInsert(states, state)
    /\ automata' = add_node(automata, state)
    /\ ret' = [op |-> "add_state", val |-> state]
    /\ UNCHANGED <<initial_states, transitions>>
    /\ UNCHANGED <<ia_vars, conv_vars, bfs_vars>>

add_transition(transition) ==
    /\ \/ transition \in transitions
       \/ Cardinality(transitions) < MaxTransitions
    /\ transitions' = transitions \cup {transition}
    /\ automata' = add_edge(automata, transition.source, transition.destination,
                            transition.symbol)
    /\ ret' = [op |-> "add_transition",
               val |-> edge_weight(automata, transition.source, transition.destination)]
    /\ UNCHANGED <<states, initial_states, final_states>>
    /\ UNCHANGED <<ia_vars, conv_vars, bfs_vars>>

\* A plausible slip: the query enters the queried state into the graph.
call_reachable_adding(state) ==
    /\ ret' = [op |-> "reachable", arg |-> state, val |-> reachable(automata, state)]
    /\ automata' = add_node(automata, state)
    /\ UNCHANGED <<states, initial_states, final_states, transitions>>
    /\ UNCHANGED <<ia_vars, conv_vars, bfs_vars>>

call_reachable(state) ==
    /\ ret' = [op |-> "reachable", arg |-> state, val |-> reachable(automata, state)]
    /\ UNCHANGED <<states, initial_states, final_states, transitions, automata>>
    /\ UNCHANGED <<ia_vars, conv_vars, bfs_vars>>

call_is_productive(state) ==
    /\ ret' = [op |-> "is_productive", arg |-> state,
               val |-> is_productive(automata, final_states, state)]
    /\ UNCHANGED <<states, initial_states, final_states, transitions, automata>>
    /\ UNCHANGED <<ia_vars, conv_vars, bfs_vars>>

DfaNext ==
    \/ \E s \in StateUniverse : add_state(s)
    \/ \E s \in InitialUniverse : add_initial_state(s)
    \/ \E s \in FinalUniverse : add_final_state(s)
    \/ \E t \in TransitionUniverse : add_transition(t)
    \/ \E s \in StateUniverse : call_reachable(s)
    \/ \E s \in StateUniverse : call_is_productive(s)


(***************************************************************************)
(* Paths through the stored transitions (the flat set), for the claims.    *)
(***************************************************************************)
StoredPairs == {<<t.source, t.destination>> : t \in transitions}

RECURSIVE PathsUpTo(_)
\* The pairs <<a, b>> joined by a directed path of 1..n stored transitions.
PathsUpTo(n) ==
    IF n <= 1 THEN StoredPairs
    ELSE LET r == PathsUpTo(n - 1)
         IN  r \cup {<<pq[1][1], pq[2][2]>> :
                        pq \in {x \in r \X StoredPairs : x[1][2] = x[2][1]}}

\* The states joined to s by a path of length >= 1 (no simple path or cycle
\* is longer than the number of states).
PathSet(s) == {p[2] : p \in {q \in PathsUpTo(Cardinality(StateUniverse)) : q[1] = s}}

\* C1: reachable(s) is exactly the set of states t with a directed path of
\* length >= 1 from s to t through the stored transitions; s itself is in
\* the result only when a cycle leads back to it.
C1_ReachableIsPathSet ==
    /\ \A s \in StateUniverse : reachable(automata, s) = PathSet(s)
    /\ ret.op = "reachable" => ret.val = PathSet(ret.arg)

\* reachable("A") was called on A -> B -> A: the start state is returned
\* because of the cycle, "C" is not.
C1_Witness ==
    /\ ret.op = "reachable"
    /\ ret.arg = "A"
    /\ ret.val = {"A", "B"}
    /\ StoredPairs = {<<"A", "B">>, <<"B", "A">>}

\* C2: is_productive(s) is true iff a final state is reachable from s by a
\* path of length >= 1; a final state with no outgoing edge is not
\* productive; in A -x-> B -y-> C with final {C}, A and B are productive and
\* C is not.
C2_ProductiveIffFinalReachable ==
    /\ \A s \in StateUniverse :
          is_productive(automata, final_states, s) <=> (PathSet(s) \cap final_states # {})
    /\ \A s \in final_states :
          (\A t \in transitions : t.source # s) => ~is_productive(automata, final_states, s)
    /\ (transitions = {Transition("A", "B", "x"), Transition("B", "C", "y")}
            /\ final_states = {"C"})
          => /\ is_productive(automata, final_states, "A")
             /\ is_productive(automata, final_states, "B")
             /\ ~is_productive(automata, final_states, "C")
    /\ ret.op = "is_productive" => (ret.val <=> (PathSet(ret.arg) \cap final_states # {}))

\* is_productive("C") was called in the scenario A -x-> B -y-> C, final {C}.
C2_Witness ==
    /\ ret.op = "is_productive"
    /\ ret.arg = "C"
    /\ ret.val = FALSE
    /\ final_states = {"C"}
    /\ transitions = {Transition("A", "B", "x"), Transition("B", "C", "y")}

\* The states a stored transition names.
TransitionEndpoints ==
    {t.source : t \in transitions} \cup {t.destination : t \in transitions}

\* C3 as stated: every state of the initial set, of the final set, or named
\* by a stored transition is in the state set.
C3_Original ==
    initial_states \cup final_states \cup TransitionEndpoints \subseteq states

\* C3, amended: the initial and the final states are in the state set, and
\* the states, like the endpoints of every stored transition, are nodes of
\* the adjacency graph; an endpoint is in the state set only when it was
\* added by add_state, add_initial_state or add_final_state.
C3_ReferencedStatesKnown ==
    /\ initial_states \cup final_states \subseteq states
    /\ states \cup TransitionEndpoints \subseteq DOMAIN automata.nodes
    /\ ret.op = "add_state" => ret.val \in states

\* A transition was added between states that were never added, beside an
\* initial and a final state that are in the state set.
C3_Witness ==
    /\ initial_states = {"A"}
    /\ final_states = {"C"}
    /\ Transition("A", "B", "x") \in transitions
    /\ "B" \notin states
    /\ "B" \in DOMAIN automata.nodes

\* The edge entries of the ordered pair <<a, b>>.
EdgeEntries(a, b) == {e \in automata.edges : e[1] = <<a, b>>}

\* C4: the graph carries at most one symbol per ordered pair, the symbol of
\* the most recently added transition of the pair; add_transition returns
\* the symbol it overwrote; the flat set keeps every transition added.
C4_OneSymbolPerPair ==
    /\ [](\A a \in StateUniverse, b \in StateUniverse :
             /\ Cardinality(EdgeEntries(a, b)) <= 1
             /\ (EdgeEntries(a, b) # {}) <=> (<<a, b>> \in StoredPairs)
             /\ \A e \in EdgeEntries(a, b) :
                   Transition(a, b, e[2]) \in transitions)
    /\ [][\A t \in TransitionUniverse :
             (ret'.op = "add_transition" /\ t \in transitions' /\ add_transition(t)) =>
                /\ EdgeEntries(t.source, t.destination)'
                      = {<<(<<t.source, t.destination>>), t.symbol>>}
                /\ ret'.val = edge_weight(automata, t.source, t.destination)
                /\ transitions \cup {t} \subseteq transitions'
                /\ \A a \in StateUniverse, b \in StateUniverse :
                      <<a, b>> # <<t.source, t.destination>>
                         => EdgeEntries(a, b)' = EdgeEntries(a, b)]_dfa_vars

\* A -y-> B was added after A -x-> B: the edge carries "y", the call returned
\* "x", and both transitions are in the flat set.
C4_Witness ==
    /\ ret.op = "add_transition"
    /\ ret.val = Some("x")
    /\ automata.edges = {<<(<<"A", "B">>), "y">>}
    /\ transitions = {Transition("A", "B", "x"), Transition("A", "B", "y")}

(***************************************************************************)
(* The intermediate automaton (intermediate_graph.rs).                     *)
(***************************************************************************)
\* Metadata::empty() / Metadata::new(label): transition_label is an Option.
Metadata(label) == [transition_label |-> label]

\* StateNode { state, metadata }
StateNode(state, label) == [state |-> state, metadata |-> Metadata(label)]

\* Node::State(StateNode)
Node_State(node) == [tag |-> "State", list |-> <<node>>]

\* Node::Decision(Vec<StateNode>)
Node_Decision(list) == [tag |-> "Decision", list |-> list]

\* The StateNode of a Node::State.
Inner(node) == node.list[1]

\* A HashMap is the set of its entries <<key, value>>.
HashMap_contains(m, k) == \E e \in m : e[1] = k

HashMap_get(m, k) == (CHOOSE e \in m : e[1] = k)[2]

\* A plausible slip: the first value written for a key stays (entry().or_insert()).
HashMap_insert_keep_first(m, k, v) ==
    IF HashMap_contains(m, k) THEN m ELSE m \cup {<<k, v>>}

\* HashMap::insert: the value of the key is replaced.
HashMap_insert(m, k, v) == {e \in m : e[1] # k} \cup {<<k, v>>}

\* delta after add_transition(source, transition, destinations).
delta_add(d, source, transition, destinations) ==
    IF HashMap_contains(d, source)
    THEN {e \in d : e[1] # source}
            \cup {<<source, HashMap_insert(HashMap_get(d, source), transition, destinations)>>}
    ELSE HashMap_insert(d, source, HashMap_insert({}, transition, destinations))

\* The entries (src, t, dst) the exporters iterate over.
Entries(d) == UNION {{<<e[1], i[1], i[2]>> : i \in e[2]} : e \in d}

(***************************************************************************)
(* Inputs of the intermediate automaton.                                   *)
(***************************************************************************)
IaStateUniverse == {"A"}

ChoiceUniverse == {"S", "T"}

\* The (source, symbol) keys offered to add_transition; the source None is
\* the start of the automaton.
KeyUniverse == {<<None, "go">>, <<Some("S"), "go">>, <<Some("S"), "stop">>}

\* The destinations offered to add_transition.
NodeUniverse ==
    { Node_State(StateNode(None, None)),
      Node_State(StateNode(None, Some("timeout"))),
      Node_State(StateNode(Some("A"), Some("Init"))),
      Node_State(StateNode(Some("T"), None)),
      Node_Decision(<<StateNode(Some("T"), None), StateNode(None, Some("timeout"))>>),
      Node_Decision(<<StateNode(Some("A"), Some("Init")), StateNode(None, None)>>) }

\* Largest number of (source, symbol) keys stored in delta.
MaxEntries == 2

(***************************************************************************)
(* Rendered text: the sequence of pieces written, each a format string of  *)
(* the source with its arguments.  A nested write!("  {}\n", inner) is     *)
(* written flat: the text before {}, the pieces of inner, the text after.  *)
(***************************************************************************)
W(fmt, args) == [fmt |-> fmt, args |-> args]

Ok(text) == [ok |-> TRUE, text |-> text]

\* unreachable!(..): the exporter panics and returns nothing.
Panic == [ok |-> FALSE, text |-> <<>>]

RECURSIVE Concat(_)
\* The concatenation of a sequence of texts.
Concat(texts) == IF texts = <<>> THEN <<>> ELSE Head(texts) \o Concat(Tail(texts))

DOT_SPECIAL_NODE == "label=\"\", fillcolor=black, fixedsize=true, height=0.25, style=filled"

\* One branch of a decision, Graphviz (the body of the for loop).
dot_branch(src, s) ==
    IF s.state # None
    THEN IF s.metadata.transition_label # None
         THEN W("{} -> {} [label={}];", <<src, s.state[1], s.metadata.transition_label[1]>>)
         ELSE W("{} -> {};", <<src, s.state[1]>>)
    ELSE IF s.metadata.transition_label # None
         THEN W("{} -> _final_ [label={}];", <<src, s.metadata.transition_label[1]>>)
         ELSE W("{} -> _final_;", <<src>>)

\* A plausible slip: the label override is ignored for a direct destination.
dot_direct_no_override(src, t, state) ==
    IF state.state = None
    THEN Ok(<<W("{} -> _final_ [label={}];", <<src, t>>)>>)
    ELSE Ok(<<W("{} -> {} [label={}];", <<src, state.state[1], t>>)>>)

\* Some(src), Node::State(state), Graphviz.
dot_direct(src, t, state) ==
    IF state.state = None
    THEN Ok(<<W("{} -> _final_ [label={}];", <<src, t>>)>>)
    ELSE IF state.metadata.transition_label # None
         THEN Ok(<<W("{} -> {} [label={}];", <<src, state.metadata.transition_label[1], t>>)>>)
         ELSE Ok(<<W("{} -> {} [label={}];", <<src, state.state[1], t>>)>>)

\* A plausible slip: a decision branch is drawn like a direct destination.
dot_decision_as_direct(src, t, decision) ==
    Ok([i \in 1..Len(decision) |-> dot_direct(src, t, decision[i]).text[1]])

\* Some(src), Node::Decision(decision), Graphviz.
dot_decision(src, t, decision) ==
    Ok([i \in 1..Len(decision) |-> dot_branch(src, decision[i])])

\* A plausible slip: the start edge to the terminal pseudo-state is drawn.
dot_start_no_panic(t, state) ==
    IF state.state = None
    THEN Ok(<<W("_initial_ -> _final_ [label={}];", <<t>>)>>)
    ELSE IF state.metadata.transition_label # None
         THEN Ok(<<W("_initial_ -> {} [label={}];", <<state.metadata.transition_label[1], t>>)>>)
         ELSE Ok(<<W("_initial_ -> {} [label={}];", <<state.state[1], t>>)>>)

\* None, Node::State(state), Graphviz.
dot_start(t, state) ==
    IF state.state = None
    THEN Panic
    ELSE IF state.metadata.transition_label # None
         THEN Ok(<<W("_initial_ -> {} [label={}];", <<state.metadata.transition_label[1], t>>)>>)
         ELSE Ok(<<W("_initial_ -> {} [label={}];", <<state.state[1], t>>)>>)

\* IntoDot for (&Option<S>, &Transition<T>, &Node<S>)
into_dot_triple(src, t, dst) ==
    IF src # None
    THEN IF dst.tag = "State"
         THEN dot_direct(src[1], t.transition, Inner(dst))
         ELSE dot_decision(src[1], t.transition, dst.list)
    ELSE IF dst.tag = "State"
         THEN dot_start(t.transition, Inner(dst))
         ELSE Panic

\* One branch of a decision, PlantUML (the body of the for loop).
plantuml_branch(src, s) ==
    IF s.state # None
    THEN IF s.metadata.transition_label # None
         THEN W("{} --> {} : {}\n", <<src, s.state[1], s.metadata.transition_label[1]>>)
         ELSE W("{} --> {}\n", <<src, s.state[1]>>)
    ELSE IF s.metadata.transition_label # None
         THEN W("{} --> [*] : {}\n", <<src, s.metadata.transition_label[1]>>)
         ELSE W("{} --> [*]\n", <<src>>)

\* Some(src), Node::State(state), PlantUML.
plantuml_direct(src, t, state) ==
    IF state.state = None
    THEN Ok(<<W("{} --> [*] : {}\n", <<src, t>>)>>)
    ELSE IF state.metadata.transition_label # None
         THEN Ok(<<W("{} --> {} : {}\n", <<src, state.metadata.transition_label[1], t>>)>>)
         ELSE Ok(<<W("{} --> {} : {}\n", <<src, state.state[1], t>>)>>)

\* A plausible slip: the outer symbol is shown on the decision branches.
plantuml_decision_with_symbol(src, t, decision) ==
    Ok([i \in 1..Len(decision) |->
          IF decision[i].state # None
          THEN W("{} --> {} : {}\n", <<src, decision[i].state[1], t>>)
          ELSE W("{} --> [*] : {}\n", <<src, t>>)])

\* Some(src), Node::Decision(decision), PlantUML.
plantuml_decision(src, t, decision) ==
    Ok([i \in 1..Len(decision) |-> plantuml_branch(src, decision[i])])

\* None, Node::State(state), PlantUML.
plantuml_start(t, state) ==
    IF state.state = None
    THEN Panic
    ELSE IF state.metadata.transition_label # None
         THEN Ok(<<W("[*] --> {} : {}\n", <<state.metadata.transition_label[1], t>>)>>)
         ELSE Ok(<<W("[*] --> {} : {}\n", <<state.state[1], t>>)>>)

\* IntoPlantUml for (&Option<S>, &Transition<T>, &Node<S>)
into_plantuml_triple(src, t, dst) ==
    IF src # None
    THEN IF dst.tag = "State"
         THEN plantuml_direct(src[1], t.transition, Inner(dst))
         ELSE plantuml_decision(src[1], t.transition, dst.list)
    ELSE IF dst.tag = "State"
         THEN plantuml_start(t.transition, Inner(dst))
         ELSE Panic

(***************************************************************************)
(* The exporters of the whole automaton.  The sets and maps are HashSet    *)
(* and HashMap: the order of a for loop over them is any order, given here *)
(* as the sequences cs (choices), ss (states) and es (entries of delta).   *)
(***************************************************************************)
\* for (src, v) in &self.delta { for (t, dst) in v { write!(before {} after) } }
\* where rs holds what {} stands for, entry by entry: a panic in one of them
\* ends the export.
RenderEntries(rs, before, after) ==
    IF \E i \in 1..Len(rs) : ~rs[i].ok
    THEN Panic
    ELSE Ok(Concat([i \in 1..Len(rs) |-> before \o rs[i].text \o after]))

\* (src, t, dst).into_dot() for the entries es, in order.
DotTriples(es) == [i \in 1..Len(es) |-> into_dot_triple(es[i][1], es[i][2], es[i][3])]

\* (src, t, dst).into_plantuml() for the entries es, in order.
PlantUmlTriples(es) ==
    [i \in 1..Len(es) |-> into_plantuml_triple(es[i][1], es[i][2], es[i][3])]

\* for s in &self.choices { write!(fmt, s) } (also over self.states)
RenderEach(fmt, xs) == [i \in 1..Len(xs) |-> W(fmt, <<xs[i]>>)]

\* A plausible slip: the choice states are declared after the edges.
into_dot_choices_last(cs, es) ==
    LET body == RenderEntries(DotTriples(es), <<W("  ", <<>>)>>, <<W("\n", <<>>)>>)
    IN  IF ~body.ok THEN Panic
        ELSE Ok(<<W("digraph Automata {{\n", <<>>),
                  W("  _initial_ [{}, shape=circle];\n", <<DOT_SPECIAL_NODE>>)>>
                \o body.text
                \o RenderEach("  {} [shape=diamond];\n", cs)
                \o <<W("  _final_ [{}, shape=doublecircle];\n", <<DOT_SPECIAL_NODE>>),
                     W("}}", <<>>)>>)

\* A plausible slip: the two special nodes are declared together, before the
\* choices and the edges.
into_dot_final_first(cs, es) ==
    LET body == RenderEntries(DotTriples(es), <<W("  ", <<>>)>>, <<W("\n", <<>>)>>)
    IN  IF ~body.ok THEN Panic
        ELSE Ok(<<W("digraph Automata {{\n", <<>>),
                  W("  _initial_ [{}, shape=circle];\n", <<DOT_SPECIAL_NODE>>),
                  W("  _final_ [{}, shape=doublecircle];\n", <<DOT_SPECIAL_NODE>>)>>
                \o RenderEach("  {} [shape=diamond];\n", cs)
                \o body.text
                \o <<W("}}", <<>>)>>)

\* IntoDot for IntermediateAutomaton
into_dot(cs, es) ==
    LET body == RenderEntries(DotTriples(es), <<W("  ", <<>>)>>, <<W("\n", <<>>)>>)
    IN  IF ~body.ok THEN Panic
        ELSE Ok(<<W("digraph Automata {{\n", <<>>),
                  W("  _initial_ [{}, shape=circle];\n", <<DOT_SPECIAL_NODE>>)>>
                \o RenderEach("  {} [shape=diamond];\n", cs)
                \o body.text
                \o <<W("  _final_ [{}, shape=doublecircle];\n", <<DOT_SPECIAL_NODE>>),
                     W("}}", <<>>)>>)

\* IntoPlantUml for IntermediateAutomaton
into_plantuml(cs, ss, es) ==
    LET body == RenderEntries(PlantUmlTriples(es), <<>>, <<W("\n", <<>>)>>)
    IN  IF ~body.ok THEN Panic
        ELSE Ok(<<W("@startuml\n", <<>>)>>
                \o RenderEach("state {} <<choice>>\n", cs)
                \o RenderEach("state {}\n", ss)
                \o body.text
                \o <<W("@end\n", <<>>)>>)

\* IntoMermaid for IntermediateAutomaton (its entries go through into_plantuml)
into_mermaid(cs, ss, es) ==
    LET body == RenderEntries(PlantUmlTriples(es), <<>>, <<W("\n", <<>>)>>)
    IN  IF ~body.ok THEN Panic
        ELSE Ok(<<W("stateDiagram-v2\n", <<>>)>>
                \o RenderEach("state {} <<choice>>\n", cs)
                \o RenderEach("state {}\n", ss)
                \o body.text)

\* The orders a for loop over a HashSet may take.
Orders(S) ==
    {f \in [1..Cardinality(S) -> S] : \A i, j \in 1..Cardinality(S) : f[i] = f[j] => i = j}

\* The orders the nested for loops over delta may take: the entries of one
\* source follow each other.
EntryOrders(d) ==
    {f \in Orders(Entries(d)) :
        \A i, j, k \in 1..Len(f) :
            (i < j /\ j < k /\ f[i][1] = f[k][1]) => f[j][1] = f[i][1]}

(***************************************************************************)
(* The calls on the intermediate automaton.                                *)
(***************************************************************************)
NotExported == [format |-> "none", ok |-> FALSE, text |-> <<>>]

Exported(format, result) == [format |-> format, ok |-> result.ok, text |-> result.text]

IaInit ==
    /\ ia_states = {}
    /\ choices = {}
    /\ delta = {}
    /\ ia_ret = [op |-> "new"]
    /\ out = NotExported

\* IntermediateAutomaton::add_state; returns whether the state is new.
ia_add_state(state) ==
    /\ out = NotExported
    /\ ia_states' = ia_states \cup {state}
    /\ ia_ret' = [op |-> "add_state", val |-> state \notin ia_states]
    /\ UNCHANGED <<choices, delta, out>>
    /\ UNCHANGED <<dfa_vars, conv_vars, bfs_vars>>

\* IntermediateAutomaton::add_choice; returns whether the choice is new.
ia_add_choice(choice) ==
    /\ out = NotExported
    /\ choices' = choices \cup {choice}
    /\ ia_ret' = [op |-> "add_choice", val |-> choice \notin choices]
    /\ UNCHANGED <<ia_states, delta, out>>
    /\ UNCHANGED <<dfa_vars, conv_vars, bfs_vars>>

\* IntermediateAutomaton::add_transition; returns nothing.  `replaced` notes
\* whether the inner insert found the key (the value it returns is dropped).
ia_add_transition(source, transition, destinations) ==
    /\ out = NotExported
    /\ \/ \E e \in Entries(delta) : e[1] = source /\ e[2] = transition
       \/ Cardinality(Entries(delta)) < MaxEntries
    /\ delta' = delta_add(delta, source, transition, destinations)
    /\ ia_ret' = [op |-> "add_transition",
                  replaced |-> \E e \in Entries(delta) : e[1] = source /\ e[2] = transition]
    /\ UNCHANGED <<ia_states, choices, out>>
    /\ UNCHANGED <<dfa_vars, conv_vars, bfs_vars>>

\* into_dot(self): the automaton is moved into the exporter.
export_dot ==
    /\ out = NotExported
    /\ \E cs \in Orders(choices), es \in EntryOrders(delta) :
          out' = Exported("dot", into_dot(cs, es))
    /\ UNCHANGED <<ia_states, choices, delta, ia_ret>>
    /\ UNCHANGED <<dfa_vars, conv_vars, bfs_vars>>

\* into_plantuml(self)
export_plantuml ==
    /\ out = NotExported
    /\ \E cs \in Orders(choices), ss \in Orders(ia_states), es \in EntryOrders(delta) :
          out' = Exported("plantuml", into_plantuml(cs, ss, es))
    /\ UNCHANGED <<ia_states, choices, delta, ia_ret>>
    /\ UNCHANGED <<dfa_vars, conv_vars, bfs_vars>>

\* into_mermaid(self)
export_mermaid ==
    /\ out = NotExported
    /\ \E cs \in Orders(choices), ss \in Orders(ia_states), es \in EntryOrders(delta) :
          out' = Exported("mermaid", into_mermaid(cs, ss, es))
    /\ UNCHANGED <<ia_states, choices, delta, ia_ret>>
    /\ UNCHANGED <<dfa_vars, conv_vars, bfs_vars>>

IaNext ==
    \/ \E s \in IaStateUniverse : ia_add_state(s)
    \/ \E s \in ChoiceUniverse : ia_add_choice(s)
    \/ \E k \in KeyUniverse, dst \in NodeUniverse :
          ia_add_transition(k[1], [transition |-> k[2]], dst)
    \/ export_dot
    \/ export_plantuml
    \/ export_mermaid

(***************************************************************************)
(* dot.rs and plantuml.rs: the conversion of a Dfa / Nfa into a Dot or a   *)
(* PlantUml value, and the Display of these.                               *)
(*                                                                         *)
(* The Dfa and Nfa taken by the conversions are maps: initial_states and   *)
(* final_states from a node to its labels, delta from a source to a map    *)
(* from a label to one destination (Dfa) or to several (Nfa).  A map to a  *)
(* collection is given as the set of its tuples.                           *)
(***************************************************************************)
Dfa(initial, final, d) ==
    [kind |-> "Dfa", initial_states |-> initial, final_states |-> final, delta |-> d]

Nfa(initial, final, d) ==
    [kind |-> "Nfa", initial_states |-> initial, final_states |-> final, delta |-> d]

\* A Dfa has one destination for a source and a label.
IsDeterministic(d) ==
    \A t1, t2 \in d : (t1[1] = t2[1] /\ t1[2] = t2[2]) => t1[3] = t2[3]

\* Largest number of (source, label, destination) triples of delta.
MaxDelta == 2

InitialPairUniverse == {<<"A", "x">>, <<"A", "y">>}

FinalPairUniverse == {<<"B", "x">>, <<"B", "y">>}

\* A -x-> A and A -x-> B: two destinations for one source and label.
DeltaUniverse ==
    {<<"A", "x", "A">>, <<"A", "x", "B">>, <<"A", "y", "B">>,
     <<"B", "x", "A">>, <<"B", "y", "B">>}

DeltaChoices == {d \in SUBSET DeltaUniverse : Cardinality(d) <= MaxDelta}

EdgeAutomata ==
    {Nfa(i, f, d) : i \in SUBSET InitialPairUniverse, f \in SUBSET FinalPairUniverse,
                    d \in DeltaChoices}
    \cup {Dfa(i, f, d) : i \in SUBSET InitialPairUniverse, f \in SUBSET FinalPairUniverse,
                         d \in {x \in DeltaChoices : IsDeterministic(x)}}

\* The orders the nested for loops over a map of collections may take: the
\* tuples of one key follow each other, at each of the first `depth` levels.
Prefix(t, n) == SubSeq(t, 1, n)

NestedOrders(S, depth) ==
    {f \in Orders(S) :
        \A n \in 1..depth : \A i, j, k \in 1..Len(f) :
            (i < j /\ j < k /\ Prefix(f[i], n) = Prefix(f[k], n))
                => Prefix(f[j], n) = Prefix(f[i], n)}

\* DotEdge::new / PlantUmlEdge::new
DotEdge_new(source, label, destination) ==
    [source |-> source, label |-> label, destination |-> destination]

\* Dot::new
Dot_new == [type |-> "Dot", edges |-> <<>>, initial_states |-> <<>>, final_states |-> <<>>]

\* PlantUml::new
PlantUml_new ==
    [type |-> "PlantUml", edges |-> <<>>, initial_states |-> <<>>, final_states |-> <<>>]

\* for (node, transitions) in m { transitions.for_each(|t| vec.push((node, t))) }
PushPairs(vec, order) == vec \o [i \in 1..Len(order) |-> <<order[i][1], order[i][2]>>]

\* for (source, ..) in delta { .. edges.push(Edge::new(source, label, destination)) }
PushEdges(vec, order) ==
    vec \o [i \in 1..Len(order) |-> DotEdge_new(order[i][1], order[i][2], order[i][3])]

\* From<Dfa> for Dot; is, fs and ds are the orders of the three loops.
dot_from_dfa(is, fs, ds) ==
    [Dot_new EXCEPT !.initial_states = PushPairs(@, is),
                    !.final_states = PushPairs(@, fs),
                    !.edges = PushEdges(@, ds)]

\* A plausible slip: only the first destination of a source and label is kept.
dot_from_nfa_first_destination(is, fs, ds) ==
    [Dot_new EXCEPT !.initial_states = PushPairs(@, is),
                    !.final_states = PushPairs(@, fs),
                    !.edges = PushEdges(@, SelectSeq(ds, LAMBDA t :
                                  \A i \in 1..Len(ds) :
                                      Prefix(ds[i], 2) = Prefix(t, 2)
                                          => \E j \in 1..i : ds[j] = t))]

\* From<Nfa> for Dot
dot_from_nfa(is, fs, ds) ==
    [Dot_new EXCEPT !.initial_states = PushPairs(@, is),
                    !.final_states = PushPairs(@, fs),
                    !.edges = PushEdges(@, ds)]

\* From<Dfa> for PlantUml
plantuml_from_dfa(is, fs, ds) ==
    [PlantUml_new EXCEPT !.initial_states = PushPairs(@, is),
                         !.final_states = PushPairs(@, fs),
                         !.edges = PushEdges(@, ds)]

\* From<Nfa> for PlantUml
plantuml_from_nfa(is, fs, ds) ==
    [PlantUml_new EXCEPT !.initial_states = PushPairs(@, is),
                         !.final_states = PushPairs(@, fs),
                         !.edges = PushEdges(@, ds)]

\* Display for DotEdge
DotEdge_fmt(e) == <<W("{} -> {} [label={}];\n", <<e.source, e.destination, e.label>>)>>

\* Display for PlantUmlEdge
PlantUmlEdge_fmt(e) == <<W("{} --> {} : {}\n", <<e.source, e.destination, e.label>>)>>

\* Display for Dot; enumerate() counts from 0.
Dot_fmt(dot) ==
    <<W("digraph Automata {{\n", <<>>),
      W("graph [pad=\"0.25\", nodesep=\"0.75\", ranksep=\"1\"];\n", <<>>)>>
    \o Concat([i \in 1..Len(dot.initial_states) |->
          <<W("\t_initial_{} [label=\"\", shape=\"plaintext\"];\n", <<i - 1>>),
            W("\t_initial_{} -> {} [label=\"{}\"];\n",
              <<i - 1, dot.initial_states[i][1], dot.initial_states[i][2]>>)>>])
    \o Concat([i \in 1..Len(dot.final_states) |->
          <<W("\t{} [style=\"bold\"];\n", <<dot.final_states[i][1]>>),
            W("\t{} -> {} [label=\"{}\", style=dashed];\n",
              <<dot.final_states[i][1], dot.final_states[i][1], dot.final_states[i][2]>>)>>])
    \o Concat([i \in 1..Len(dot.edges) |-> <<W("\t", <<>>)>> \o DotEdge_fmt(dot.edges[i])])
    \o <<W("}}\n", <<>>)>>

\* Display for PlantUml
PlantUml_fmt(uml) ==
    <<W("@startuml\n", <<>>), W("hide empty description\n", <<>>)>>
    \o [i \in 1..Len(uml.initial_states) |->
          W("[*] --> {} : {}\n", <<uml.initial_states[i][1], uml.initial_states[i][2]>>)]
    \o [i \in 1..Len(uml.final_states) |->
          W("{} --> [*] : {}\n", <<uml.final_states[i][1], uml.final_states[i][2]>>)]
    \o Concat([i \in 1..Len(uml.edges) |->
          <<W("\t", <<>>)>> \o PlantUmlEdge_fmt(uml.edges[i])])
    \o <<W("@enduml\n", <<>>)>>

NotConverted == [type |-> "none"]

NotShown == [done |-> FALSE, text |-> <<>>]

\* No automaton is handed to a conversion.
ConvIdle ==
    /\ ea = Dfa({}, {}, {})
    /\ conv = NotConverted
    /\ shown = NotShown

\* Dot::from(dfa): the automaton is moved into the conversion.
call_dot_from_dfa ==
    /\ ea.kind = "Dfa"
    /\ conv = NotConverted
    /\ \E is \in NestedOrders(ea.initial_states, 1), fs \in NestedOrders(ea.final_states, 1),
          ds \in NestedOrders(ea.delta, 1) :
          conv' = dot_from_dfa(is, fs, ds)
    /\ UNCHANGED <<ea, shown>>
    /\ UNCHANGED <<dfa_vars, ia_vars, bfs_vars>>

\* Dot::from(nfa)
call_dot_from_nfa ==
    /\ ea.kind = "Nfa"
    /\ conv = NotConverted
    /\ \E is \in NestedOrders(ea.initial_states, 1), fs \in NestedOrders(ea.final_states, 1),
          ds \in NestedOrders(ea.delta, 2) :
          conv' = dot_from_nfa(is, fs, ds)
    /\ UNCHANGED <<ea, shown>>
    /\ UNCHANGED <<dfa_vars, ia_vars, bfs_vars>>

\* PlantUml::from(dfa)
call_plantuml_from_dfa ==
    /\ ea.kind = "Dfa"
    /\ conv = NotConverted
    /\ \E is \in NestedOrders(ea.initial_states, 1), fs \in NestedOrders(ea.final_states, 1),
          ds \in NestedOrders(ea.delta, 1) :
          conv' = plantuml_from_dfa(is, fs, ds)
    /\ UNCHANGED <<ea, shown>>
    /\ UNCHANGED <<dfa_vars, ia_vars, bfs_vars>>

\* PlantUml::from(nfa)
call_plantuml_from_nfa ==
    /\ ea.kind = "Nfa"
    /\ conv = NotConverted
    /\ \E is \in NestedOrders(ea.initial_states, 1), fs \in NestedOrders(ea.final_states, 1),
          ds \in NestedOrders(ea.delta, 2) :
          conv' = plantuml_from_nfa(is, fs, ds)
    /\ UNCHANGED <<ea, shown>>
    /\ UNCHANGED <<dfa_vars, ia_vars, bfs_vars>>

\* dot.to_string()
call_Dot_fmt ==
    /\ conv.type = "Dot"
    /\ shown' = [done |-> TRUE, text |-> Dot_fmt(conv)]
    /\ UNCHANGED <<ea, conv>>
    /\ UNCHANGED <<dfa_vars, ia_vars, bfs_vars>>

\* plantuml.to_string()
call_PlantUml_fmt ==
    /\ conv.type = "PlantUml"
    /\ shown' = [done |-> TRUE, text |-> PlantUml_fmt(conv)]
    /\ UNCHANGED <<ea, conv>>
    /\ UNCHANGED <<dfa_vars, ia_vars, bfs_vars>>

ConvNext ==
    \/ call_dot_from_dfa
    \/ call_dot_from_nfa
    \/ call_plantuml_from_dfa
    \/ call_plantuml_from_nfa
    \/ call_Dot_fmt
    \/ call_PlantUml_fmt

(***************************************************************************)
(* reachable, one iteration of its while loop at a time.  The call borrows *)
(* the automaton mutably: nothing else runs on it until the call returns.  *)
(***************************************************************************)
\* Largest count of pushes of one state the loop is followed to.
MaxEnqueued == 3

BfsIdle ==
    /\ bfs_pc = "idle"
    /\ bfs_start = None
    /\ bfs_stack = <<>>
    /\ bfs_discovered = {}
    /\ bfs_enqueued = [s \in StateUniverse |-> 0]

\* How often s occurs in seq from position `from` on.
Occurrences(seq, from, s) == Cardinality({i \in from..Len(seq) : seq[i] = s})

\* add_transition, called while no reachable call is running.
build_transition(transition) ==
    /\ bfs_pc = "idle"
    /\ add_transition(transition)

\* let mut stack = VecDeque::new(); let mut discovered = HashSet::new();
\* stack.push_front(state);
reachable_enter(state) ==
    /\ bfs_pc = "idle"
    /\ bfs_pc' = "loop"
    /\ bfs_start' = Some(state)
    /\ bfs_stack' = <<state>>
    /\ bfs_discovered' = {}
    /\ bfs_enqueued' = [bfs_enqueued EXCEPT ![state] = @ + 1]
    /\ UNCHANGED <<dfa_vars, ia_vars, conv_vars>>

\* while let Some(s) = stack.pop_front() { for n in neighbors_outgoing(s) { .. } }
reachable_iteration ==
    /\ bfs_pc = "loop"
    /\ bfs_stack # <<>>
    /\ \A s \in StateUniverse : bfs_enqueued[s] <= MaxEnqueued
    /\ LET r == VisitNeighbors(neighbors_outgoing(automata, Head(bfs_stack)),
                               Tail(bfs_stack), bfs_discovered)
       IN  /\ bfs_stack' = r.stack
           /\ bfs_discovered' = r.discovered
           /\ bfs_enqueued' =
                 [s \in StateUniverse |->
                     bfs_enqueued[s] + Occurrences(r.stack, Len(bfs_stack), s)]
    /\ UNCHANGED <<bfs_pc, bfs_start>>
    /\ UNCHANGED <<dfa_vars, ia_vars, conv_vars>>

\* pop_front() returned None: the loop ends and discovered is returned.
reachable_return ==
    /\ bfs_pc = "loop"
    /\ bfs_stack = <<>>
    /\ bfs_pc' = "done"
    /\ ret' = [op |-> "reachable", arg |-> bfs_start[1], val |-> bfs_discovered]
    /\ UNCHANGED <<states, initial_states, final_states, transitions, automata>>
    /\ UNCHANGED <<bfs_start, bfs_stack, bfs_discovered, bfs_enqueued>>
    /\ UNCHANGED <<ia_vars, conv_vars>>

BfsNext ==
    \/ \E t \in TransitionUniverse : build_transition(t)
    \/ \E s \in StateUniverse : reachable_enter(s)
    \/ reachable_iteration
    \/ reachable_return

(***************************************************************************)
(* Specifications: one automaton of each kind, built and used on its own.  *)
(***************************************************************************)
Init == DfaInit /\ IaInit /\ ConvIdle /\ BfsIdle

SpecDfa == Init /\ [][DfaNext]_vars

SpecIA == Init /\ [][IaNext]_vars

\* A conversion is applied to each Dfa and Nfa of EdgeAutomata.
ConvInit == DfaInit /\ IaInit /\ BfsIdle /\ ea \in EdgeAutomata /\ conv = NotConverted
                /\ shown = NotShown

SpecConv == ConvInit /\ [][ConvNext]_vars

\* A running call of reachable runs on: its loop is sequential code.
SpecBfs == Init /\ [][BfsNext]_vars /\ WF_vars(reachable_iteration) /\ WF_vars(reachable_return)

(***************************************************************************)
(* Reading a rendered text back, for the claims: its edges and its choice  *)
(* markers.  In an edge, the source None is the start pseudo-node          *)
(* (_initial_, [*]) and the destination None the terminal pseudo-node      *)
(* (_final_, [*]); the text None is an edge without text.                  *)
(***************************************************************************)
EdgeOf(src, dst, text) == [src |-> src, dst |-> dst, text |-> text]

EdgeFormats ==
    { "{} -> _final_ [label={}];", "{} -> {} [label={}];", "{} -> {};", "{} -> _final_;",
      "_initial_ -> {} [label={}];",
      "{} --> [*] : {}\n", "{} --> {} : {}\n", "{} --> {}\n", "{} --> [*]\n",
      "[*] --> {} : {}\n" }

IsEdge(w) == w.fmt \in EdgeFormats

ReadEdge(w) ==
    CASE w.fmt \in {"{} -> _final_ [label={}];", "{} --> [*] : {}\n"}
            -> EdgeOf(Some(w.args[1]), None, Some(w.args[2]))
      [] w.fmt \in {"{} -> {} [label={}];", "{} --> {} : {}\n"}
            -> EdgeOf(Some(w.args[1]), Some(w.args[2]), Some(w.args[3]))
      [] w.fmt \in {"{} -> {};", "{} --> {}\n"}
            -> EdgeOf(Some(w.args[1]), Some(w.args[2]), None)
      [] w.fmt \in {"{} -> _final_;", "{} --> [*]\n"}
            -> EdgeOf(Some(w.args[1]), None, None)
      [] w.fmt \in {"_initial_ -> {} [label={}];", "[*] --> {} : {}\n"}
            -> EdgeOf(None, Some(w.args[1]), Some(w.args[2]))

\* The edges of a text, in output order.
EdgesOf(text) ==
    LET es == SelectSeq(text, IsEdge)
    IN  [i \in 1..Len(es) |-> ReadEdge(es[i])]

IsChoiceMarker(w) == w.fmt \in {"  {} [shape=diamond];\n", "state {} <<choice>>\n"}

\* The states a text marks as choice states.
MarkedChoices(text) == {text[i].args[1] : i \in {j \in 1..Len(text) : IsChoiceMarker(text[j])}}

Range(seq) == {seq[i] : i \in 1..Len(seq)}

\* A sequence as a bag: each element with the number of times it occurs.
BagOf(seq) == [x \in Range(seq) |-> Cardinality({i \in 1..Len(seq) : seq[i] = x})]

Formats == {"dot", "plantuml", "mermaid"}

\* What the exporter of a format renders for one entry of delta.
TripleOf(format, e) ==
    IF format = "dot" THEN into_dot_triple(e[1], e[2], e[3])
    ELSE into_plantuml_triple(e[1], e[2], e[3])

\* Every result an exporter may return for the automaton, over the orders of
\* its loops.
ResultsOf(format) ==
    IF format = "dot"
    THEN {into_dot(cs, es) : cs \in Orders(choices), es \in EntryOrders(delta)}
    ELSE IF format = "plantuml"
    THEN UNION {{into_plantuml(cs, ss, es) : cs \in Orders(choices), ss \in Orders(ia_states)} :
                   es \in EntryOrders(delta)}
    ELSE UNION {{into_mermaid(cs, ss, es) : cs \in Orders(choices), ss \in Orders(ia_states)} :
                   es \in EntryOrders(delta)}

\* The edge the rules give for an entry with a direct destination.
ExpectedDirectEdge(e) ==
    EdgeOf(e[1],
           IF Inner(e[3]).state = None THEN None
           ELSE IF Inner(e[3]).metadata.transition_label # None
                THEN Inner(e[3]).metadata.transition_label
                ELSE Inner(e[3]).state,
           Some(e[2].transition))

\* The edges the rules give for an entry with a decision.
ExpectedBranchEdges(e) ==
    [i \in 1..Len(e[3].list) |->
        EdgeOf(e[1], e[3].list[i].state, e[3].list[i].metadata.transition_label)]

ExpectedEdges(e) ==
    IF e[3].tag = "State" THEN <<ExpectedDirectEdge(e)>> ELSE ExpectedBranchEdges(e)

\* A start entry to the terminal pseudo-state or to a decision.
Malformed(e) ==
    e[1] = None /\ (e[3].tag = "Decision" \/ Inner(e[3]).state = None)

SameKey(e, source, transition) == e[1] = source /\ e[2] = transition

\* C5: delta stores at most one destination per (source, symbol) key, the
\* destination of the last add_transition call for the key; the entries of
\* the other keys are not changed by the call; an export shows the stored
\* (latest) destinations only.
C5_LastWriteWins ==
    /\ [](/\ \A a, b \in delta : a[1] = b[1] => a = b
          /\ \A a, b \in Entries(delta) : (a[1] = b[1] /\ a[2] = b[2]) => a = b)
    /\ [][\A k \in KeyUniverse, dst \in NodeUniverse :
             (ia_ret'.op = "add_transition"
                 /\ ia_add_transition(k[1], [transition |-> k[2]], dst)) =>
                /\ {e \in Entries(delta') : SameKey(e, k[1], [transition |-> k[2]])}
                      = {<<k[1], [transition |-> k[2]], dst>>}
                /\ {e \in Entries(delta') : ~SameKey(e, k[1], [transition |-> k[2]])}
                      = {e \in Entries(delta) : ~SameKey(e, k[1], [transition |-> k[2]])}]_vars
    /\ [](out.ok =>
             \E es \in EntryOrders(delta) :
                EdgesOf(out.text) = Concat([i \in 1..Len(es) |-> ExpectedEdges(es[i])]))

\* The key (S, go) was written again, and the export shows one edge for it.
C5_Witness ==
    /\ ia_ret.op = "add_transition"
    /\ ia_ret.replaced
    /\ Entries(delta) = {<<Some("S"), [transition |-> "go"], Node_State(StateNode(Some("T"), None))>>}
    /\ out.format = "dot"
    /\ out.ok
    /\ EdgesOf(out.text) = <<EdgeOf(Some("S"), Some("T"), Some("go"))>>

\* C6: with a start entry whose destination is the terminal pseudo-state or a
\* decision, each of the three exporters panics and returns no text;
\* add_transition stores the entry without error.
C6_MalformedPanics ==
    /\ \A e \in Entries(delta) : Malformed(e) => \A f \in Formats : ~TripleOf(f, e).ok
    /\ (\E e \in Entries(delta) : Malformed(e)) =>
          IF out.format = "none"
          THEN \A f \in Formats : ResultsOf(f) = {Panic}
          ELSE ~out.ok /\ out.text = <<>>

\* add_transition stored a start entry to a decision, and the Mermaid export
\* of the automaton panicked.
C6_Witness ==
    /\ ia_ret.op = "add_transition"
    /\ \E e \in Entries(delta) : e[1] = None /\ e[3].tag = "Decision"
    /\ out.format = "mermaid"
    /\ ~out.ok

\* What C7 says of one entry with a direct destination.
DirectEntryRendered(e) ==
    /\ \A f \in Formats :
          /\ TripleOf(f, e).ok
          /\ Len(TripleOf(f, e).text) = 1
          /\ EdgesOf(TripleOf(f, e).text) = <<ExpectedDirectEdge(e)>>
    /\ out.ok => ExpectedDirectEdge(e) \in Range(EdgesOf(out.text))

\* C7 as stated: every entry with a direct destination is rendered as one
\* edge with the symbol as text, from the source (or the start pseudo-node)
\* to the terminal pseudo-node, the label override or the state identifier.
C7_Original ==
    \A e \in Entries(delta) : e[3].tag = "State" => DirectEntryRendered(e)

\* C7, amended: the same for every entry with a direct destination except
\* the start entry (absent source) whose inner state is absent, for which
\* the exporters panic; in an export that completes every such entry has
\* its edge.
C7_DirectEdge ==
    \A e \in Entries(delta) :
        (e[3].tag = "State" /\ ~Malformed(e)) => DirectEntryRendered(e)

\* The start entry to inner state A with override "Init" was exported: the
\* edge from the start pseudo-node targets "Init", not "A", with text "go".
C7_Witness ==
    /\ <<None, [transition |-> "go"], Node_State(StateNode(Some("A"), Some("Init")))>>
          \in Entries(delta)
    /\ out.format = "dot"
    /\ out.ok
    /\ EdgeOf(None, Some("Init"), Some("go")) \in Range(EdgesOf(out.text))
    /\ \A x \in Range(EdgesOf(out.text)) : x.dst # Some("A")

\* C8: an entry with a decision and a present source is rendered as one
\* edge per branch, in the branches' order, from the source to the branch's
\* own state identifier (or the terminal pseudo-node), with the branch's
\* label override as text or no text; the outer symbol is on none of them.
C8_DecisionEdges ==
    \A e \in Entries(delta) :
        (e[3].tag = "Decision" /\ e[1] # None) =>
            /\ \A f \in Formats :
                  /\ TripleOf(f, e).ok
                  /\ Len(TripleOf(f, e).text) = Len(e[3].list)
                  /\ EdgesOf(TripleOf(f, e).text) = ExpectedBranchEdges(e)
                  /\ \A w \in Range(TripleOf(f, e).text) :
                        e[2].transition \notin Range(w.args)
            /\ out.ok =>
                  \E k \in 0..Len(EdgesOf(out.text)) :
                      /\ k + Len(e[3].list) <= Len(EdgesOf(out.text))
                      /\ \A i \in 1..Len(e[3].list) :
                            EdgesOf(out.text)[k + i] = ExpectedBranchEdges(e)[i]

\* The scenario of the spec: choice state S, S -go-> [T, terminal "timeout"],
\* exported to Graphviz.
C8_Witness ==
    /\ choices = {"S"}
    /\ Entries(delta) =
          {<<Some("S"), [transition |-> "go"],
             Node_Decision(<<StateNode(Some("T"), None), StateNode(None, Some("timeout"))>>)>>}
    /\ out.format = "dot"
    /\ out.ok
    /\ EdgesOf(out.text) = <<EdgeOf(Some("S"), Some("T"), None),
                             EdgeOf(Some("S"), None, Some("timeout"))>>

\* What the claims compare between exporters: the choice markers and the
\* collection of edges.
ViewOf(text) == [choices |-> MarkedChoices(text), edges |-> BagOf(EdgesOf(text))]

\* Before the export: every exporter, under every order of its loops, would
\* complete and show the choice markers and the edges of the view v.  After
\* it: the export done has completed and shows them.
AllExportsShow(v) ==
    IF out.format = "none"
    THEN \A f \in Formats : \A r \in ResultsOf(f) : r.ok /\ ViewOf(r.text) = v
    ELSE out.ok /\ ViewOf(out.text) = v

\* C9: for a well-formed automaton the three exporters complete and show the
\* same set of choice markers and the same collection of edges.
C9_ExportersAgree ==
    (\A e \in Entries(delta) : ~Malformed(e)) =>
        AllExportsShow(ViewOf(into_dot(CHOOSE cs \in Orders(choices) : TRUE,
                                       CHOOSE es \in EntryOrders(delta) : TRUE).text))

\* A well-formed automaton with a choice state, a direct entry and a
\* decision was exported to Mermaid.
C9_Witness ==
    /\ out.format = "mermaid"
    /\ out.ok
    /\ choices # {}
    /\ \E e \in Entries(delta) : e[3].tag = "Decision"
    /\ \E e \in Entries(delta) : e[3].tag = "State"

\* C10: in the output of every exporter no edge precedes a choice marker.
C10_ChoicesBeforeEdges ==
    /\ out.ok =>
          \A i, j \in 1..Len(out.text) :
              (IsEdge(out.text[i]) /\ IsChoiceMarker(out.text[j])) => j < i
    /\ out.ok => MarkedChoices(out.text) = choices

\* Two choice states and two entries were exported to Graphviz.
C10_Witness ==
    /\ out.format = "dot"
    /\ out.ok
    /\ choices = {"S", "T"}
    /\ Len(EdgesOf(out.text)) >= 2

(***************************************************************************)
(* C11: the declarations of the two special nodes in the Graphviz output.  *)
(***************************************************************************)
\* The positions of the pieces of text written with the format fmt.
PositionsOf(text, fmt) == {i \in 1..Len(text) : text[i].fmt = fmt}

InitialDeclarations(text) == PositionsOf(text, "  _initial_ [{}, shape=circle];\n")

FinalDeclarations(text) == PositionsOf(text, "  _final_ [{}, shape=doublecircle];\n")

\* C11: a Graphviz export that returns declares _initial_ exactly once and
\* _final_ exactly once; every choice declaration and every edge lies after
\* the first and before the second, and only the closing brace follows the
\* declaration of _final_.
C11_SpecialNodesFirstAndLast ==
    (out.format = "dot" /\ out.ok) =>
        /\ Cardinality(InitialDeclarations(out.text)) = 1
        /\ Cardinality(FinalDeclarations(out.text)) = 1
        /\ \A i \in InitialDeclarations(out.text), f \in FinalDeclarations(out.text) :
              /\ i < f
              /\ \A j \in 1..Len(out.text) :
                    (IsChoiceMarker(out.text[j]) \/ IsEdge(out.text[j])) => (i < j /\ j < f)
              /\ i = 2
              /\ f = Len(out.text) - 1

\* A Graphviz export of an automaton with a choice state, a decision entry
\* and a direct entry.
C11_Witness ==
    /\ out.format = "dot"
    /\ out.ok
    /\ choices # {}
    /\ \E e \in Entries(delta) : e[3].tag = "Decision"
    /\ \E e \in Entries(delta) : e[3].tag = "State"
    /\ Len(EdgesOf(out.text)) >= 3

(***************************************************************************)
(* C13: the edges of a converted Dfa / Nfa.                                *)
(***************************************************************************)
\* seq holds every element of S once, and nothing else.
ExactlyOnce(seq, S) == Len(seq) = Cardinality(S) /\ Range(seq) = S

\* The arguments of the pieces of text written with the format fmt, in order.
ArgsOf(text, fmt) ==
    LET ws == SelectSeq(text, LAMBDA w : w.fmt = fmt)
    IN  [i \in 1..Len(ws) |-> ws[i].args]

\* The text of a Dot shows each transition, each (initial state, label) and
\* each (final state, label) of the automaton once, the start pseudo-nodes
\* being numbered apart, and has no further line.
DotShows(text, a) ==
    /\ ExactlyOnce(ArgsOf(text, "{} -> {} [label={}];\n"),
                   {<<t[1], t[3], t[2]>> : t \in a.delta})
    /\ LET starts == ArgsOf(text, "\t_initial_{} -> {} [label=\"{}\"];\n")
       IN  /\ ExactlyOnce([i \in 1..Len(starts) |-> <<starts[i][2], starts[i][3]>>],
                          a.initial_states)
           /\ \A i, j \in 1..Len(starts) : starts[i][1] = starts[j][1] => i = j
    /\ ExactlyOnce(ArgsOf(text, "\t{} -> {} [label=\"{}\", style=dashed];\n"),
                   {<<p[1], p[1], p[2]>> : p \in a.final_states})
    /\ Len(text) = 3 + 2 * Cardinality(a.initial_states)
                     + 2 * Cardinality(a.final_states) + 2 * Cardinality(a.delta)

\* The same for the text of a PlantUml.
PlantUmlShows(text, a) ==
    /\ ExactlyOnce(ArgsOf(text, "{} --> {} : {}\n"), {<<t[1], t[3], t[2]>> : t \in a.delta})
    /\ ExactlyOnce(ArgsOf(text, "[*] --> {} : {}\n"), a.initial_states)
    /\ ExactlyOnce(ArgsOf(text, "{} --> [*] : {}\n"), a.final_states)
    /\ Len(text) = 3 + Cardinality(a.initial_states)
                     + Cardinality(a.final_states) + 2 * Cardinality(a.delta)

\* C13: the Dot or PlantUml built from a Dfa or an Nfa holds one edge for each
\* stored (source, label, destination), so one for each destination of an
\* Nfa, one pair for each (initial state, label) and one for each (final
\* state, label), and nothing else; its text shows exactly these.
C13_OneEdgePerTransition ==
    /\ conv.type # "none" =>
          /\ ExactlyOnce(conv.edges, {DotEdge_new(t[1], t[2], t[3]) : t \in ea.delta})
          /\ ExactlyOnce(conv.initial_states, ea.initial_states)
          /\ ExactlyOnce(conv.final_states, ea.final_states)
    /\ (shown.done /\ conv.type = "Dot") => DotShows(shown.text, ea)
    /\ (shown.done /\ conv.type = "PlantUml") => PlantUmlShows(shown.text, ea)

\* An Nfa with two destinations for one source and label, two labels for its
\* initial state and a final state was converted to a Dot and written.
C13_Witness ==
    /\ ea.kind = "Nfa"
    /\ {<<"A", "x", "A">>, <<"A", "x", "B">>} \subseteq ea.delta
    /\ Cardinality(ea.initial_states) = 2
    /\ ea.final_states # {}
    /\ conv.type = "Dot"
    /\ shown.done

(***************************************************************************)
(* C14 - C16: what the calls on the edge-list automaton leave alone.       *)
(***************************************************************************)
\* The ordered pairs that have an edge in the graph g.
EdgePairs(g) == {e[1] : e \in g.edges}

\* C14: no call removes a state from the state set, the initial-state set or
\* the final-state set, a transition from the flat set, or a node or an edge
\* from the graph (the symbol on an edge may be replaced, see C4).
C14_NeverRemoved ==
    [][/\ states \subseteq states'
       /\ initial_states \subseteq initial_states'
       /\ final_states \subseteq final_states'
       /\ transitions \subseteq transitions'
       /\ DOMAIN automata.nodes \subseteq DOMAIN automata'.nodes
       /\ EdgePairs(automata) \subseteq EdgePairs(automata')]_vars

\* Two states and two transitions were added, an initial and a final state
\* among them, and a query was called after that.
C14_Witness ==
    /\ Cardinality(states) >= 2
    /\ initial_states # {}
    /\ final_states # {}
    /\ Cardinality(transitions) = 2
    /\ ret.op = "is_productive"

\* C15: add_state on a state of the state set, add_initial_state on an
\* initial state and add_final_state on a final state change none of the
\* sets and nothing of the graph; each of the three returns the state it
\* was given; add_initial_state and add_final_state put the state into the
\* state set as well as into their own set.
C15_AddStateIdempotent ==
    [][\A s \in StateUniverse :
          /\ (ret'.op = "add_state" /\ s \in states /\ add_state(s)) =>
                /\ UNCHANGED <<states, initial_states, final_states, transitions, automata>>
                /\ ret'.val = s
          /\ (ret'.op = "add_state" /\ s \in initial_states /\ add_initial_state(s)) =>
                /\ UNCHANGED <<states, initial_states, final_states, transitions, automata>>
                /\ ret'.val = s
          /\ (ret'.op = "add_state" /\ s \in final_states /\ add_final_state(s)) =>
                /\ UNCHANGED <<states, initial_states, final_states, transitions, automata>>
                /\ ret'.val = s
          /\ (ret'.op = "add_state" /\ add_initial_state(s)) =>
                (s \in states' /\ s \in initial_states' /\ ret'.val = s)
          /\ (ret'.op = "add_state" /\ add_final_state(s)) =>
                (s \in states' /\ s \in final_states' /\ ret'.val = s)]_vars

\* add_state returned the initial state A, which has an outgoing and an
\* incoming edge attached.
C15_Witness ==
    /\ ret = [op |-> "add_state", val |-> "A"]
    /\ "A" \in initial_states
    /\ HasNode(automata, "A")
    /\ \E i, j \in 1..Len(automata.nodes["A"]) :
          /\ automata.nodes["A"][i][2] = "Outgoing"
          /\ automata.nodes["A"][j][2] = "Incoming"

\* C16: reachable and is_productive change none of the sets and nothing of
\* the graph; for a state that is no node of the graph (not added as a state
\* and not named by a transition) reachable returns the empty set and
\* is_productive false; the call repeated returns the same.
C16_QueriesArePure ==
    /\ [](/\ (ret.op = "reachable" /\ ~HasNode(automata, ret.arg)) => ret.val = {}
          /\ (ret.op = "is_productive" /\ ~HasNode(automata, ret.arg)) => ret.val = FALSE)
    /\ [][/\ ret'.op \in {"reachable", "is_productive"} =>
                UNCHANGED <<states, initial_states, final_states, transitions, automata>>
          /\ (ret.op = "reachable" /\ ret'.op = "reachable" /\ ret'.arg = ret.arg)
                => ret'.val = ret.val
          /\ (ret.op = "is_productive" /\ ret'.op = "is_productive" /\ ret'.arg = ret.arg)
                => ret'.val = ret.val]_vars

\* reachable was called for a state that is no node of a graph with edges.
C16_Witness ==
    /\ ret.op = "reachable"
    /\ ~HasNode(automata, ret.arg)
    /\ ret.val = {}
    /\ transitions # {}
    /\ states # {}

(***************************************************************************)
(* C17: the loop of reachable ends.                                        *)
(***************************************************************************)
\* How often the loop has pushed s when s is discovered or not, and is the
\* start state or not.
PushesOf(s) ==
    (IF s \in bfs_discovered THEN 1 ELSE 0) + (IF bfs_start = Some(s) THEN 1 ELSE 0)

\* C17: a call of reachable returns: its stack becomes empty.  A state is
\* pushed when it enters the discovered set and at no other time, but for
\* the start state, which is pushed once more at the start; the stack holds
\* no state twice but for the start state.
C17_ReachableTerminates ==
    /\ [](bfs_pc # "idle" =>
             /\ \A s \in StateUniverse : bfs_enqueued[s] = PushesOf(s)
             /\ \A s \in StateUniverse :
                   Occurrences(bfs_stack, 1, s) <= bfs_enqueued[s])
    /\ (bfs_pc = "loop") ~> (bfs_pc = "done" /\ bfs_stack = <<>>)

\* reachable returned on an automaton with a self-loop and another
\* transition, for a start state on a cycle: it was pushed twice.
C17_Witness ==
    /\ bfs_pc = "done"
    /\ bfs_start # None
    /\ bfs_enqueued[bfs_start[1]] = 2
    /\ \E t \in transitions : t.source = t.destination
    /\ \E t \in transitions : t.source # t.destination

====
